---- MODULE Spec2Model ----
(***************************************************************************)
(* Model of the OCR service of src/main.py: the POST /upload handler, the  *)
(* two OCR wrappers and process_pdf.  A request is a small sequential      *)
(* program (pc) over its own locals; the temp directory (fs) and the       *)
(* cloud-client handle (vision_client) are the state requests share.       *)
(* The external collaborators (client upload stream, PDF rasterizer, local *)
(* engine, cloud engine, disk) answer nondeterministically at call time;   *)
(* every answer is appended to the request's log (ops).                    *)
(*                                                                         *)
(* Text is a sequence of Unicode code points.                              *)
(***************************************************************************)
EXTENDS Integers, Sequences, FiniteSets, TLC

\* ---------------------------------------------------------------- bounds
\* Largest number of pages the rasterizer returns (single-request runs).
MaxPages == 3
\* Longest raw text an engine returns for one image (single-request runs).
MaxLen == 1
\* Number of distinct names the temp directory can hand out.
NumNames == 3
\* Pages and temp names for the runs with two concurrent requests.
ConcMaxPages == 1
ConcNumNames == 5

VARIABLES
    vision_client,      \* TRUE: the cloud client was initialised at startup; FALSE: None
    fs,                 \* temp directory: name -> the file of that name (or NoFile)
    content_type,       \* per request: declared content type of the upload
    use_google_vision,  \* per request: the caller's flag
    pc,                 \* per request: position in upload_file / process_pdf
    temp_file_path,     \* per request: name of the upload temp file
    temp_img,           \* per request: name of the current page image
    images,             \* per request: number of page images convert_from_path returned
    i,                  \* per request: 0-based loop index of process_pdf
    extracted_texts,    \* per request: page blocks collected so far
    source,             \* per request: local `source` of process_pdf / upload_file
    resp,               \* per request: the response (status 0: none yet)
    ops                 \* per request: log of the collaborators' answers

vars == <<vision_client, fs, content_type, use_google_vision, pc, temp_file_path,
          temp_img, images, i, extracted_texts, source, resp, ops>>

\* ------------------------------------------------------------------ text
\* The characters the engines' raw texts are made of: newline and "a".
Chars == {10, 97}

\* The characters str.strip() removes: those str.isspace() holds of.
Whitespace ==
    {9, 10, 11, 12, 13, 28, 29, 30, 31, 32, 133, 160, 5760}
        \cup (8192..8202) \cup {8232, 8233, 8239, 8287, 12288}

RECURSIVE TextsUpTo(_)
TextsUpTo(n) ==
    IF n = 0 THEN {<<>>}
    ELSE LET shorter == TextsUpTo(n - 1)
         IN  shorter \cup {Append(t, c) : t \in {s \in shorter : Len(s) = n - 1}, c \in Chars}

RECURSIVE LStrip(_)
LStrip(s) ==
    IF s = <<>> THEN s
    ELSE IF Head(s) \in Whitespace THEN LStrip(Tail(s)) ELSE s

RECURSIVE RStrip(_)
RStrip(s) ==
    IF s = <<>> THEN s
    ELSE IF s[Len(s)] \in Whitespace THEN RStrip(SubSeq(s, 1, Len(s) - 1)) ELSE s

\* str.strip()
Strip(s) == RStrip(LStrip(s))

\* str(n) for n >= 0
RECURSIVE Decimal(_)
Decimal(n) ==
    IF n < 10 THEN <<48 + n>>
    ELSE Decimal(n \div 10) \o <<48 + (n % 10)>>

\* Fault: the marker carries the 0-based loop index.
PageBlockZeroBased(idx, page_text) ==
    <<45, 45, 45, 32, 80, 97, 103, 101, 32>> \o Decimal(idx)
        \o <<32, 45, 45, 45, 10>> \o page_text

\* f"--- Page {i+1} ---\n{page_text}" with the 0-based loop index i
PageBlock(idx, page_text) ==
    <<45, 45, 45, 32, 80, 97, 103, 101, 32>> \o Decimal(idx + 1)
        \o <<32, 45, 45, 45, 10>> \o page_text

\* sep.join(blocks)
RECURSIVE Join(_, _)
Join(sep, blocks) ==
    IF blocks = <<>> THEN <<>>
    ELSE IF Len(blocks) = 1 THEN blocks[1]
    ELSE blocks[1] \o sep \o Join(sep, Tail(blocks))

\* ------------------------------------------------------------ validation
\* Fault: one more content type let through.
AllowedWithWord == {"application/pdf", "image/jpeg", "image/png", "image/tiff",
                    "image/bmp", "application/msword"}

\* The keys of allowed_types.
allowed_types == {"application/pdf", "image/jpeg", "image/png", "image/tiff", "image/bmp"}

\* The content types requests declare: the supported ones and two others.
ContentTypes == allowed_types \cup {"application/msword", "text/plain"}

\* Fault: the configuration check is skipped.
NeverUnavailable(flag, client) == FALSE

\* `use_google_vision and not vision_client`
CloudUnavailable(flag, client) == flag /\ ~client

\* Fault: the cloud engine is used whenever it is configured.
ClientOnly(flag, client) == client

\* `use_google_vision and vision_client`
UseCloud(flag, client) == flag /\ client

\* Fault: the tag does not follow the engine.
AlwaysTesseract(cloud) == "tesseract"

\* source = "google-vision" / source = "tesseract"
SourceTag(cloud) == IF cloud THEN "google-vision" ELSE "tesseract"

\* ------------------------------------------------------------- responses
\* A local variable no assignment has bound yet.
Unbound == "unbound"

\* No response yet.
NoResp == [status |-> 0, text |-> <<>>, source |-> "none", detail |-> "none"]

\* raise HTTPException(status_code, detail), or an exception FastAPI turns into 500
Error(status, detail) ==
    [status |-> status, text |-> <<>>, source |-> "none", detail |-> detail]

\* return {"text": ..., "source": ...}
Success(text, src) == [status |-> 200, text |-> text, source |-> src, detail |-> "none"]

\* ---------------------------------------------------------------- engines
\* What an engine answers for one image.
OcrResultsUpTo(n) ==
    [kind : {"text"}, raw : TextsUpTo(n)]
        \cup {[kind |-> "error", raw |-> <<>>], [kind |-> "noannot", raw |-> <<>>]}

\* Fault: an engine failure is swallowed and read as empty text.
NeverRaises(res) == FALSE

\* The engine call throws.
EngineRaises(res) == res.kind = "error"

\* extract_text_with_tesseract: the text, or the HTTPException
extract_text_with_tesseract(res) ==
    IF EngineRaises(res)
    THEN [ok |-> FALSE, text |-> <<>>, detail |-> "Tesseract OCR failed"]
    ELSE [ok |-> TRUE, text |-> Strip(res.raw), detail |-> "none"]

\* extract_text_with_google_vision: the text, or the HTTPException
extract_text_with_google_vision(client, res) ==
    IF ~client
    THEN [ok |-> FALSE, text |-> <<>>, detail |-> "Google Vision not configured"]
    ELSE IF EngineRaises(res)
    THEN [ok |-> FALSE, text |-> <<>>, detail |-> "Google Vision OCR failed"]
    ELSE IF res.kind = "noannot"
    THEN [ok |-> TRUE, text |-> <<>>, detail |-> "none"]
    ELSE [ok |-> TRUE, text |-> Strip(res.raw), detail |-> "none"]

\* The answers the engine about to be called can give: the local engine
\* returns a string or throws, only the cloud response can lack annotations.
AnswersFor(cloud, results) ==
    IF cloud THEN results ELSE {x \in results : x.kind # "noannot"}

\* One engine call as the `if use_google_vision and vision_client` branches make it.
RunOcr(flag, client, res) ==
    IF UseCloud(flag, client)
    THEN extract_text_with_google_vision(client, res)
    ELSE extract_text_with_tesseract(res)

\* ------------------------------------------------------------ temp files
\* temp_file_path / temp_img before their assignment.
NoName == 0
\* No file of that name.
NoFile == [owner |-> 0, kind |-> "none"]
\* The credentials file startup writes with delete=False; no request owns it.
CredentialsFile == [owner |-> 0, kind |-> "credentials"]

\* How the module-level initialisation ended: no credentials file written
\* (import failed, GOOGLE_CREDENTIALS_JSON unset or not JSON), file written
\* and client built, file written and the client constructor raised.
Startups == {"no_credentials", "client_ok", "client_failed"}

\* Fault: the new file may take the name of an existing one.
AnyName(dir) == DOMAIN dir

\* tempfile.NamedTemporaryFile creates a file under a name no existing file has.
FreeNames(dir) == {n \in DOMAIN dir : dir[n] = NoFile}

\* Log entry: the collaborator called, its answer, and the creator of the
\* file the call read or wrote.
Event(op, kind, raw, n, owner) ==
    [op |-> op, kind |-> kind, raw |-> raw, n |-> n, owner |-> owner]

\* ------------------------------------------------------------------ Init
InitFor(requests, ctypes, names) ==
    /\ \E startup \in Startups :
         /\ vision_client = (startup = "client_ok")
         /\ fs = [n \in 1..names |->
                    IF startup # "no_credentials" /\ n = names
                    THEN CredentialsFile ELSE NoFile]
    /\ content_type \in [requests -> ctypes]
    /\ use_google_vision \in [requests -> BOOLEAN]
    /\ pc = [r \in requests |-> "validate"]
    /\ temp_file_path = [r \in requests |-> NoName]
    /\ temp_img = [r \in requests |-> NoName]
    /\ images = [r \in requests |-> 0]
    /\ i = [r \in requests |-> 0]
    /\ extracted_texts = [r \in requests |-> <<>>]
    /\ source = [r \in requests |-> Unbound]
    /\ resp = [r \in requests |-> NoResp]
    /\ ops = [r \in requests |-> <<>>]

Init == InitFor({1}, ContentTypes, NumNames)

InitConc == InitFor({1, 2}, {"application/pdf", "image/png", "text/plain"}, ConcNumNames)

\* --------------------------------------------------------------- actions
\* upload_file, lines 157-177: the two validation checks.
Validate(r) ==
    /\ pc[r] = "validate"
    /\ IF content_type[r] \notin allowed_types
       THEN /\ resp' = [resp EXCEPT ![r] = Error(400, "Unsupported file type")]
            /\ pc' = [pc EXCEPT ![r] = "done"]
       ELSE IF CloudUnavailable(use_google_vision[r], vision_client)
       THEN /\ resp' = [resp EXCEPT ![r] = Error(400, "Google Vision API requested but not configured")]
            /\ pc' = [pc EXCEPT ![r] = "done"]
       ELSE /\ resp' = resp
            /\ pc' = [pc EXCEPT ![r] = "create_upload"]
    /\ UNCHANGED <<vision_client, fs, content_type, use_google_vision, temp_file_path,
                   temp_img, images, i, extracted_texts, source, ops>>

\* upload_file, line 180: NamedTemporaryFile(delete=False,
\* suffix=Path(file.filename).suffix) creates the upload file.  When the line
\* raises (file name None, a suffix the file system refuses, temp directory
\* full or unwritable) no file exists and the try/finally has not been
\* entered: the request ends with 500.
CreateUpload(r) ==
    /\ pc[r] = "create_upload"
    /\ \/ \E n \in FreeNames(fs) :
            /\ fs' = [fs EXCEPT ![n] = [owner |-> r, kind |-> "upload"]]
            /\ temp_file_path' = [temp_file_path EXCEPT ![r] = n]
            /\ pc' = [pc EXCEPT ![r] = "read_write"]
            /\ resp' = resp
       \/ /\ fs' = fs
          /\ temp_file_path' = temp_file_path
          /\ pc' = [pc EXCEPT ![r] = "done"]
          /\ resp' = [resp EXCEPT ![r] = Error(500, "Internal Server Error")]
    /\ UNCHANGED <<vision_client, content_type, use_google_vision, temp_img, images, i,
                   extracted_texts, source, ops>>

\* upload_file, lines 181-183: await file.read(), temp_file.write(content).  A
\* failure leaves the `with` block, which closes the file and (delete=False)
\* keeps it; the try/finally that unlinks it has not been entered yet.
ReadWrite(r) ==
    /\ pc[r] = "read_write"
    /\ \E ok \in BOOLEAN :
         /\ ops' = [ops EXCEPT ![r] = Append(@, Event("read", IF ok THEN "ok" ELSE "error",
                                             <<>>, 0, fs[temp_file_path[r]].owner))]
         /\ IF ok
            THEN /\ pc' = [pc EXCEPT ![r] = "dispatch"]
                 /\ resp' = resp
            ELSE /\ pc' = [pc EXCEPT ![r] = "done"]
                 /\ resp' = [resp EXCEPT ![r] = Error(500, "Internal Server Error")]
    /\ UNCHANGED <<vision_client, fs, content_type, use_google_vision, temp_file_path,
                   temp_img, images, i, extracted_texts, source>>

\* process_pdf, lines 105-106: convert_from_path, extracted_texts = [].
Rasterize(r, maxPages) ==
    /\ pc[r] = "dispatch"
    /\ content_type[r] = "application/pdf"
    /\ \/ \E n \in 0..maxPages :
            /\ ops' = [ops EXCEPT ![r] = Append(@, Event("raster", "ok", <<>>, n,
                                                fs[temp_file_path[r]].owner))]
            /\ images' = [images EXCEPT ![r] = n]
            /\ pc' = [pc EXCEPT ![r] = "loop"]
            /\ resp' = resp
       \/ /\ ops' = [ops EXCEPT ![r] = Append(@, Event("raster", "error", <<>>, 0,
                                              fs[temp_file_path[r]].owner))]
          /\ images' = images
          /\ pc' = [pc EXCEPT ![r] = "finally"]
          /\ resp' = [resp EXCEPT ![r] = Error(500, "PDF processing failed")]
    /\ i' = [i EXCEPT ![r] = 0]
    /\ extracted_texts' = [extracted_texts EXCEPT ![r] = <<>>]
    /\ UNCHANGED <<vision_client, fs, content_type, use_google_vision, temp_file_path,
                   temp_img, source>>

\* upload_file, lines 190-196: one engine call on the uploaded image.
OcrImage(r, results) ==
    /\ pc[r] = "dispatch"
    /\ content_type[r] # "application/pdf"
    /\ LET cloud == UseCloud(use_google_vision[r], vision_client)
       IN  \E res \in AnswersFor(cloud, results) :
             LET out == RunOcr(use_google_vision[r], vision_client, res)
                 called == ~cloud \/ vision_client
             IN  /\ ops' = [ops EXCEPT ![r] =
                              IF called
                              THEN Append(@, Event(IF cloud THEN "cloud" ELSE "local",
                                                   res.kind, res.raw, 0,
                                                   fs[temp_file_path[r]].owner))
                              ELSE @]
                 /\ IF out.ok
                    THEN /\ source' = [source EXCEPT ![r] = SourceTag(cloud)]
                         /\ resp' = [resp EXCEPT ![r] = Success(out.text, SourceTag(cloud))]
                    ELSE /\ source' = source
                         /\ resp' = [resp EXCEPT ![r] = Error(500, out.detail)]
    /\ pc' = [pc EXCEPT ![r] = "finally"]
    /\ UNCHANGED <<vision_client, fs, content_type, use_google_vision, temp_file_path,
                   temp_img, images, i, extracted_texts>>

\* process_pdf, lines 108-111: next page; its image is saved to a new temp file.
\* A failed save raises inside the `with`, past the os.unlink of line 125.
\* When NamedTemporaryFile itself raises (temp directory full or unwritable)
\* no file exists; the handler of lines 130-131 re-raises either failure.
CreatePage(r) ==
    /\ pc[r] = "loop"
    /\ i[r] < images[r]
    /\ \/ \E n \in FreeNames(fs), ok \in BOOLEAN :
            /\ fs' = [fs EXCEPT ![n] = [owner |-> r, kind |-> "page"]]
            /\ temp_img' = [temp_img EXCEPT ![r] = n]
            /\ ops' = [ops EXCEPT ![r] = Append(@, Event("save", IF ok THEN "ok" ELSE "error",
                                                <<>>, i[r] + 1, r))]
            /\ IF ok
               THEN /\ pc' = [pc EXCEPT ![r] = "page_ocr"]
                    /\ resp' = resp
               ELSE /\ pc' = [pc EXCEPT ![r] = "finally"]
                    /\ resp' = [resp EXCEPT ![r] = Error(500, "PDF processing failed")]
       \/ /\ fs' = fs
          /\ temp_img' = temp_img
          /\ ops' = ops
          /\ pc' = [pc EXCEPT ![r] = "finally"]
          /\ resp' = [resp EXCEPT ![r] = Error(500, "PDF processing failed")]
    /\ UNCHANGED <<vision_client, content_type, use_google_vision, temp_file_path, images,
                   i, extracted_texts, source>>

\* process_pdf, lines 113-122: the engine call on the page image, the source
\* tag, and the page block when the text is not blank.  An engine failure
\* raises inside the `with`, past the os.unlink of line 125, and is re-raised
\* by the handler of lines 130-131.
OcrPage(r, results) ==
    /\ pc[r] = "page_ocr"
    /\ LET cloud == UseCloud(use_google_vision[r], vision_client)
       IN  \E res \in AnswersFor(cloud, results) :
             LET out == RunOcr(use_google_vision[r], vision_client, res)
                 called == ~cloud \/ vision_client
             IN  /\ ops' = [ops EXCEPT ![r] =
                              IF called
                              THEN Append(@, Event(IF cloud THEN "cloud" ELSE "local",
                                                   res.kind, res.raw, i[r] + 1,
                                                   fs[temp_img[r]].owner))
                              ELSE @]
                 /\ IF out.ok
                    THEN /\ source' = [source EXCEPT ![r] = SourceTag(cloud)]
                         /\ extracted_texts' =
                              [extracted_texts EXCEPT ![r] =
                                 IF Strip(out.text) # <<>>
                                 THEN Append(@, PageBlock(i[r], out.text))
                                 ELSE @]
                         /\ pc' = [pc EXCEPT ![r] = "page_unlink"]
                         /\ resp' = resp
                    ELSE /\ source' = source
                         /\ extracted_texts' = extracted_texts
                         /\ pc' = [pc EXCEPT ![r] = "finally"]
                         /\ resp' = [resp EXCEPT ![r] = Error(500, "PDF processing failed")]
    /\ UNCHANGED <<vision_client, fs, content_type, use_google_vision, temp_file_path,
                   temp_img, images, i>>

\* process_pdf, line 125: os.unlink(temp_img.name), then the next iteration.
UnlinkPage(r) ==
    /\ pc[r] = "page_unlink"
    /\ IF fs[temp_img[r]] # NoFile
       THEN /\ fs' = [fs EXCEPT ![temp_img[r]] = NoFile]
            /\ i' = [i EXCEPT ![r] = @ + 1]
            /\ pc' = [pc EXCEPT ![r] = "loop"]
            /\ resp' = resp
       ELSE /\ fs' = fs
            /\ i' = i
            /\ pc' = [pc EXCEPT ![r] = "finally"]
            /\ resp' = [resp EXCEPT ![r] = Error(500, "PDF processing failed")]
    /\ UNCHANGED <<vision_client, content_type, use_google_vision, temp_file_path,
                   temp_img, images, extracted_texts, source, ops>>

\* Fault: `source` has a value also when no page was processed.
ReturnUnbound(texts, src) == Success(Join(<<10, 10>>, texts), src)

\* process_pdf, lines 127-131: the joined text and `source`; reading `source`
\* when no iteration bound it raises UnboundLocalError, which the handler of
\* lines 130-131 turns into the 500.
ReturnPdf(texts, src) ==
    IF src = Unbound
    THEN Error(500, "PDF processing failed")
    ELSE Success(Join(<<10, 10>>, texts), src)

\* process_pdf, lines 127-128, and upload_file, lines 198-205.
PdfDone(r) ==
    /\ pc[r] = "loop"
    /\ i[r] >= images[r]
    /\ resp' = [resp EXCEPT ![r] = ReturnPdf(extracted_texts[r], source[r])]
    /\ pc' = [pc EXCEPT ![r] = "finally"]
    /\ UNCHANGED <<vision_client, fs, content_type, use_google_vision, temp_file_path,
                   temp_img, images, i, extracted_texts, source, ops>>

\* upload_file, lines 207-209: finally: os.unlink(temp_file_path).
Finally(r) ==
    /\ pc[r] = "finally"
    /\ IF fs[temp_file_path[r]] # NoFile
       THEN /\ fs' = [fs EXCEPT ![temp_file_path[r]] = NoFile]
            /\ resp' = resp
       ELSE /\ fs' = fs
            /\ resp' = [resp EXCEPT ![r] = Error(500, "Internal Server Error")]
    /\ pc' = [pc EXCEPT ![r] = "done"]
    /\ UNCHANGED <<vision_client, content_type, use_google_vision, temp_file_path,
                   temp_img, images, i, extracted_texts, source, ops>>

\* The engine answers drawn in the runs with one request.
Answers == OcrResultsUpTo(MaxLen)

Next ==
    \/ \E r \in DOMAIN pc : Validate(r)
    \/ \E r \in DOMAIN pc : CreateUpload(r)
    \/ \E r \in DOMAIN pc : ReadWrite(r)
    \/ \E r \in DOMAIN pc : Rasterize(r, MaxPages)
    \/ \E r \in DOMAIN pc : OcrImage(r, Answers)
    \/ \E r \in DOMAIN pc : CreatePage(r)
    \/ \E r \in DOMAIN pc : OcrPage(r, Answers)
    \/ \E r \in DOMAIN pc : UnlinkPage(r)
    \/ \E r \in DOMAIN pc : PdfDone(r)
    \/ \E r \in DOMAIN pc : Finally(r)

\* The engine answers drawn in the runs with two concurrent requests.
ConcAnswers ==
    {[kind |-> "text", raw |-> <<32, 97>>], [kind |-> "error", raw |-> <<>>]}

NextConc ==
    \/ \E r \in DOMAIN pc : Validate(r)
    \/ \E r \in DOMAIN pc : CreateUpload(r)
    \/ \E r \in DOMAIN pc : ReadWrite(r)
    \/ \E r \in DOMAIN pc : Rasterize(r, ConcMaxPages)
    \/ \E r \in DOMAIN pc : OcrImage(r, ConcAnswers)
    \/ \E r \in DOMAIN pc : CreatePage(r)
    \/ \E r \in DOMAIN pc : OcrPage(r, ConcAnswers)
    \/ \E r \in DOMAIN pc : UnlinkPage(r)
    \/ \E r \in DOMAIN pc : PdfDone(r)
    \/ \E r \in DOMAIN pc : Finally(r)

\* One request at a time.
Spec == Init /\ [][Next]_vars

\* Two requests whose steps interleave freely.
SpecConc == InitConc /\ [][NextConc]_vars

\* ================================================================ claims
Requests == DOMAIN pc

Supported == {"application/pdf", "image/jpeg", "image/png", "image/tiff", "image/bmp"}

IsOcrCall(e) == e.op \in {"local", "cloud"}

IsWork(e) == e.op \in {"raster", "local", "cloud"}

\* The engine calls of request r, in the order they were made.
OcrCalls(r) == SelectSeq(ops[r], IsOcrCall)

\* The rasterizer and engine calls of request r.
Work(r) == SelectSeq(ops[r], IsWork)

\* C1: a request whose content type is outside the supported set never
\* rasterizes and never calls an engine, is answered with nothing but 400,
\* and is answered 400 when it completes, whatever the flag and the client.
C1_UnsupportedRejected ==
    \A r \in Requests :
        content_type[r] \notin Supported =>
            /\ ops[r] = <<>>
            /\ resp[r].status \in {0, 400}
            /\ pc[r] = "done" => resp[r].status = 400

C1_Witness ==
    \E r \in Requests :
        /\ pc[r] = "done"
        /\ content_type[r] = "application/msword"
        /\ use_google_vision[r]
        /\ vision_client
        /\ resp[r].status = 400

\* C2: a supported request that sets the flag while the cloud client is not
\* configured makes no rasterizer, local or cloud call and completes with 400.
C2_UnconfiguredCloudRejected ==
    \A r \in Requests :
        (content_type[r] \in Supported /\ use_google_vision[r] /\ ~vision_client) =>
            /\ Work(r) = <<>>
            /\ resp[r].status \in {0, 400}
            /\ pc[r] = "done" => resp[r].status = 400

C2_Witness ==
    \E r \in Requests :
        /\ pc[r] = "done"
        /\ content_type[r] = "application/pdf"
        /\ use_google_vision[r]
        /\ ~vision_client
        /\ resp[r].status = 400
        /\ resp[r].detail = "Google Vision API requested but not configured"

\* C3: a request with the flag unset never calls the cloud engine, also when
\* the local engine returns blank text or fails.
C3_NoCloudWithoutFlag ==
    \A r \in Requests :
        ~use_google_vision[r] => \A k \in 1..Len(ops[r]) : ops[r][k].op # "cloud"

C3_Witness ==
    \E r \in Requests :
        /\ pc[r] = "done"
        /\ ~use_google_vision[r]
        /\ vision_client
        /\ content_type[r] = "application/pdf"
        /\ Len(OcrCalls(r)) = 2
        /\ OcrCalls(r)[1] = Event("local", "text", <<10>>, 1, r)
        /\ OcrCalls(r)[2] = Event("local", "error", <<>>, 2, r)

\* C4 (as claimed): when a request has completed, no page image it created
\* is left in the temp directory.
C4_PageImagesRemoved ==
    \A r \in Requests :
        pc[r] = "done" =>
            \A n \in DOMAIN fs : ~(fs[n].owner = r /\ fs[n].kind = "page")

\* --- Page k ---
RefMarker(k) ==
    <<45, 45, 45, 32, 80, 97, 103, 101, 32>> \o Decimal(k) \o <<32, 45, 45, 45>>

\* The text a successful engine call contributes.
RefText(e) == IF e.kind = "noannot" THEN <<>> ELSE Strip(e.raw)

\* Pages k.. of the response text: a marker and the text for every page whose
\* text is not empty, numbered by position, separated by a blank line.
RECURSIVE RefPages(_, _)
RefPages(calls, k) ==
    IF k > Len(calls) THEN <<>>
    ELSE LET t == RefText(calls[k])
             rest == RefPages(calls, k + 1)
         IN  IF t = <<>> THEN rest
             ELSE IF rest = <<>> THEN RefMarker(k) \o <<10>> \o t
             ELSE RefMarker(k) \o <<10>> \o t \o <<10, 10>> \o rest

\* C5: a PDF answered 200 with the flag unset had every page read by the
\* local engine, and its text is, for each page in order whose text is not
\* empty, the marker with the page's 1-based position, a newline and the
\* page's stripped text, the blocks separated by a blank line.
C5_PageMarkers ==
    \A r \in Requests :
        (content_type[r] = "application/pdf" /\ ~use_google_vision[r]
            /\ resp[r].status = 200) =>
            /\ Len(OcrCalls(r)) = images[r]
            /\ \A k \in 1..images[r] : OcrCalls(r)[k].op = "local"
            /\ resp[r].text = RefPages(OcrCalls(r), 1)

C5_Witness ==
    \E r \in Requests :
        /\ pc[r] = "done"
        /\ content_type[r] = "application/pdf"
        /\ ~use_google_vision[r]
        /\ resp[r].status = 200
        /\ images[r] = 3
        /\ OcrCalls(r)[1].raw = <<97>>
        /\ OcrCalls(r)[2].raw = <<10>>
        /\ OcrCalls(r)[3].raw = <<97>>
        /\ resp[r].text =
             <<45, 45, 45, 32, 80, 97, 103, 101, 32, 49, 32, 45, 45, 45, 10,
               97, 10, 10,
               45, 45, 45, 32, 80, 97, 103, 101, 32, 51, 32, 45, 45, 45, 10,
               97>>

\* C6: every 200 response carries a text (a sequence of code points) and a
\* source that is "tesseract" or "google-vision".
C6_SuccessShape ==
    \A r \in Requests :
        resp[r].status = 200 =>
            /\ resp[r].source \in {"tesseract", "google-vision"}
            /\ resp[r].text \in Seq(0..1114111)

C6_Witness ==
    \E r \in Requests :
        /\ pc[r] = "done"
        /\ content_type[r] = "application/pdf"
        /\ images[r] = 2
        /\ resp[r].status = 200
        /\ resp[r].text = <<>>
        /\ resp[r].source = "tesseract"

\* C7: every engine call of a PDF request goes to the cloud engine iff the
\* flag is set and the client is configured, otherwise to the local engine;
\* a 200 response had one call per page and its source is "google-vision"
\* iff all calls were cloud calls, "tesseract" iff all were local calls.
C7_SingleEngine ==
    \A r \in Requests :
        content_type[r] = "application/pdf" =>
            LET calls == OcrCalls(r)
                idx == 1..Len(calls)
            IN  /\ \A k \in idx :
                     calls[k].op = "cloud" <=> (use_google_vision[r] /\ vision_client)
                /\ resp[r].status = 200 =>
                     /\ Len(calls) = images[r]
                     /\ resp[r].source = "google-vision" <=> \A k \in idx : calls[k].op = "cloud"
                     /\ resp[r].source = "tesseract" <=> \A k \in idx : calls[k].op = "local"

C7_Witness ==
    \E r \in Requests :
        /\ pc[r] = "done"
        /\ content_type[r] = "application/pdf"
        /\ resp[r].status = 200
        /\ resp[r].source = "google-vision"
        /\ images[r] = 2
        /\ Len(OcrCalls(r)) = 2
        /\ \A k \in 1..2 : OcrCalls(r)[k].op = "cloud"

\* C8: a failed rasterizer or engine call is the last call the request makes
\* and the request is answered 500.
C8_FailureIsFatal ==
    \A r \in Requests :
        \A k \in 1..Len(ops[r]) :
            (IsWork(ops[r][k]) /\ ops[r][k].kind = "error") =>
                /\ k = Len(ops[r])
                /\ resp[r].status = 500

C8_Witness ==
    \E r \in Requests :
        /\ pc[r] = "done"
        /\ content_type[r] = "application/pdf"
        /\ images[r] = 2
        /\ Len(OcrCalls(r)) = 1
        /\ OcrCalls(r)[1] = Event("local", "error", <<>>, 1, r)
        /\ resp[r].status = 500

\* What the response says: status, text, source.
Outcome(rsp) == <<rsp.status, rsp.text, rsp.source>>

RefTag(flag, client) == IF flag /\ client THEN "google-vision" ELSE "tesseract"

\* process_pdf run alone on the answers log[pos..]: page k of n.  A log that
\* ends before the last page is that of a request whose next temp file
\* could not be created.
RECURSIVE RefPdf(_, _, _, _, _, _)
RefPdf(log, pos, k, n, calls, tag) ==
    IF k > n
    THEN IF n = 0 THEN <<500, <<>>, "none">> ELSE <<200, RefPages(calls, 1), tag>>
    ELSE IF pos > Len(log) THEN <<500, <<>>, "none">>
    ELSE IF log[pos].kind = "error" THEN <<500, <<>>, "none">>
    ELSE IF log[pos + 1].kind = "error" THEN <<500, <<>>, "none">>
    ELSE RefPdf(log, pos + 2, k + 1, n, Append(calls, log[pos + 1]), tag)

\* The outcome of one request run alone, given the answers its
\* collaborators gave it (log).
RefAlone(ctype, flag, client, log) ==
    IF ctype \notin Supported THEN <<400, <<>>, "none">>
    ELSE IF flag /\ ~client THEN <<400, <<>>, "none">>
    ELSE IF log = <<>> THEN <<500, <<>>, "none">>
    ELSE IF log[1].kind = "error" THEN <<500, <<>>, "none">>
    ELSE IF log[2].kind = "error" THEN <<500, <<>>, "none">>
    ELSE IF ctype = "application/pdf"
    THEN RefPdf(log, 3, 1, log[2].n, <<>>, RefTag(flag, client))
    ELSE <<200, RefText(log[2]), RefTag(flag, client)>>

\* The files a request is working on are files it created.
OwnFiles(r) ==
    /\ pc[r] \in {"read_write", "dispatch", "loop", "page_ocr", "page_unlink", "finally"}
         => fs[temp_file_path[r]].owner = r
    /\ pc[r] \in {"page_ocr", "page_unlink"} => fs[temp_img[r]].owner = r
    /\ \A k \in 1..Len(ops[r]) : ops[r][k].owner = r

\* A file is removed or replaced only by a step of the request that created it.
OwnerRemoves ==
    \A n \in DOMAIN fs :
        (fs[n] # NoFile /\ fs'[n] # fs[n]) =>
            /\ fs[n].owner \in Requests
            /\ pc'[fs[n].owner] # pc[fs[n].owner]

\* C9: with requests interleaved, no step changes the cloud-client handle,
\* every request reads, writes and removes only temp files it created, and a
\* completed request's status, text and source are those of the same request
\* run alone on the same collaborator answers.
C9_Independent ==
    /\ [](\A r \in Requests :
            /\ OwnFiles(r)
            /\ pc[r] = "done" =>
                 Outcome(resp[r]) = RefAlone(content_type[r], use_google_vision[r],
                                             vision_client, ops[r]))
    /\ [][vision_client' = vision_client /\ OwnerRemoves]_vars

C9_Witness ==
    /\ Requests = {1, 2}
    /\ pc[1] = "page_unlink"
    /\ pc[2] = "page_ocr"
    /\ vision_client
    /\ \A q \in Requests : Cardinality({n \in DOMAIN fs : fs[n].owner = q}) = 2
    /\ temp_img[1] < temp_file_path[2]
    /\ temp_file_path[2] < temp_file_path[1]

\* C10 (as claimed): when a request has completed, no upload temp file it
\* created is left in the temp directory.
C10_UploadRemoved ==
    \A r \in Requests :
        pc[r] = "done" =>
            \A n \in DOMAIN fs : ~(fs[n].owner = r /\ fs[n].kind = "upload")

====
